---- MODULE Spec2Model ----
(***************************************************************************)
(* A model of the AI knowledge concierge: the text segmenter               *)
(* (data_loader.split_text_into_chunks), the document session of app.py    *)
(* (load_documents, clear_documents, the chat input of render_main) and    *)
(* the context building of rag_engine.generate_answer.                     *)
(*                                                                         *)
(* A text is a sequence of characters; a character is a one-element        *)
(* string.  Characters outside ASCII are written by their code point:      *)
(* "U+3002" is the ideographic full stop, "U+FF0E" the fullwidth full      *)
(* stop, "U+FF01" the fullwidth exclamation mark and "U+FF1F" the          *)
(* fullwidth question mark.                                                *)
(***************************************************************************)
EXTENDS Naturals, Integers, Sequences, FiniteSets

VARIABLES
    \* ---- one call of split_text_into_chunks --------------------------
    text,            \* the argument text
    chunk_size,      \* the argument chunk_size
    overlap,         \* the argument overlap
    sentences,       \* the local list of stripped, non-empty sentences
    idx,             \* the position of the for loop in sentences
    chunks,          \* the local list chunks (the value returned)
    current_chunk,   \* the local list current_chunk
    current_length,  \* the local counter current_length
    pc,              \* "call", "loop" or "done" ("idle": no call is modelled)
    \* ---- the vector store (vectorizer) ----------------------------------
    collection,      \* the stored fragments, in insertion order; <<>> is no collection
    \* ---- st.session_state and the widgets of app.py ---------------------
    messages,          \* st.session_state.messages
    documents_loaded,  \* st.session_state.documents_loaded
    document_summary,  \* st.session_state.document_summary: <<>> is None, <<s>> is s
    manual_api_key,    \* st.session_state.manual_api_key
    manual_key,        \* the value of the API key text input
    env_api_key,       \* get_api_key(): <<>> is None, <<k>> is the key k
    sidebar,           \* the notice of the load button in the last run
    \* ---- the call of generate_answer of the generate_answer runs ---------
    last_call,       \* its locals and its result; <<>> before the call
    \* ---- history ------------------------------------------------------
    loaded,          \* the fragments in the files and the URL of the last stored load
    prev_loaded      \* those of the stored load before that

segVars == <<text, chunk_size, overlap, sentences, idx, chunks,
             current_chunk, current_length, pc>>

storeVars == <<collection>>

sessionVars == <<messages, documents_loaded, document_summary,
                 manual_api_key, manual_key, env_api_key, sidebar>>

appVars == <<storeVars, sessionVars, last_call, loaded, prev_loaded>>

vars == <<segVars, appVars>>

(***************************************************************************)
(* Program constants (config.py).                                          *)
(***************************************************************************)
CHUNK_SIZE == 500
CHUNK_OVERLAP == 50
DEFAULT_TOP_K == 5

(***************************************************************************)
(* Bounds of the model.                                                    *)
(***************************************************************************)
MaxLen == 4       \* longest text of the small-parameter runs
MaxSize == 3      \* largest chunk_size of the small-parameter runs
MaxOverlap == 3   \* largest overlap of the small-parameter runs
MaxUnits == 3     \* most sentence units of a text of the default-parameter runs
MaxFragments == 2 \* most fragments of a store of the generate_answer runs
MaxFiles == 1     \* most PDF files of one load
MaxMessages == 2  \* longest chat history

(***************************************************************************)
(* Characters.                                                             *)
(***************************************************************************)
\* A variant of SentenceEnd: the ASCII full stop ends a sentence too.
SentenceEndWithAscii == {"U+3002", "U+FF0E", "U+FF01", "U+FF1F", "\n", "."}

KUTEN == "U+3002"
SentenceEnd == {"U+3002", "U+FF0E", "U+FF01", "U+FF1F", "\n"}
Whitespace == {" ", "\n", "\t"}

Rep(c, n) == [i \in 1..n |-> c]

SeqsUpTo(S, n) == UNION {[1..k -> S] : k \in 0..n}

MinOf(S) == CHOOSE i \in S : \A j \in S : i <= j
MaxOf(S) == CHOOSE i \in S : \A j \in S : j <= i

\* A variant of IsSpace: strip(" "), which leaves line breaks.
IsSpaceBlankOnly(c) == c = " "

\* str.strip(): the text without its leading and trailing whitespace.
IsSpace(c) == c \in Whitespace
Strip(s) ==
    LET keep == {i \in 1..Len(s) : ~IsSpace(s[i])}
    IN  IF keep = {} THEN <<>> ELSE SubSeq(s, MinOf(keep), MaxOf(keep))

\* re.split(r'(?<=[...])', text): the text cut after every character of the
\* class; a cut after the last character leaves a last, empty piece.
ReSplit(t) ==
    LET cuts == {i \in 1..Len(t) : t[i] \in SentenceEnd}
        n == Cardinality(cuts)
        Kth(k) == CHOOSE i \in cuts : Cardinality({j \in cuts : j <= i}) = k
    IN  [k \in 1..(n + 1) |->
            SubSeq(t, IF k = 1 THEN 1 ELSE Kth(k - 1) + 1,
                      IF k = n + 1 THEN Len(t) ELSE Kth(k))]

NonEmpty(s) == s # <<>>

\* [s.strip() for s in sentences if s.strip()]
SplitSentences(t) ==
    LET pieces == ReSplit(t)
        stripped == [k \in 1..Len(pieces) |-> Strip(pieces[k])]
    IN  SelectSeq(stripped, NonEmpty)

RECURSIVE Join(_)
\* "".join(parts)
Join(parts) ==
    IF parts = <<>> THEN <<>> ELSE Head(parts) \o Join(Tail(parts))

\* s[-n:] for n > 0
LastChars(s, n) ==
    IF n >= Len(s) THEN s ELSE SubSeq(s, Len(s) - n + 1, Len(s))

\* A variant of OverlapText: [:overlap], the first characters.
OverlapTextHead(closed, ov) ==
    IF ov > 0
    THEN (IF ov >= Len(closed) THEN closed ELSE SubSeq(closed, 1, ov))
    ELSE <<>>

\* A variant of OverlapText: nothing is carried over from a chunk shorter
\* than overlap.
OverlapTextStrict(closed, ov) ==
    IF ov > 0 /\ Len(closed) >= ov THEN LastChars(closed, ov) ELSE <<>>

\* "".join(current_chunk)[-overlap:] if overlap > 0 else ""
OverlapText(closed, ov) ==
    IF ov > 0 THEN LastChars(closed, ov) ELSE <<>>

\* A variant of MustClose: the running length is left out of the sum.
MustCloseSentenceOnly(len, sentence, size, cur) ==
    Len(sentence) > size /\ cur # <<>>

\* The condition of line 165.
MustClose(len, sentence, size, cur) ==
    len + Len(sentence) > size /\ cur # <<>>

\* One iteration of the for loop (lines 161-174) on the loop's locals.
LoopBody(st, sentence, size, ov) ==
    LET closing == MustClose(st.current_length, sentence, size, st.current_chunk)
        closed == Join(st.current_chunk)
        overlap_text == OverlapText(closed, ov)
        chunk0 == IF closing
                  THEN (IF overlap_text # <<>> THEN <<overlap_text>> ELSE <<>>)
                  ELSE st.current_chunk
        length0 == IF closing THEN Len(overlap_text) ELSE st.current_length
    IN  [chunks |-> IF closing THEN Append(st.chunks, closed) ELSE st.chunks,
         current_chunk |-> Append(chunk0, sentence),
         current_length |-> length0 + Len(sentence)]

\* A variant of Remainder: lines 177-180 are left out and the sentences
\* still in current_chunk are not returned.
RemainderDropped(st) == st.chunks

\* Lines 177-180: the rest is the last chunk.
Remainder(st) ==
    IF st.current_chunk # <<>>
    THEN Append(st.chunks, Join(st.current_chunk))
    ELSE st.chunks

RECURSIVE RunLoop(_, _, _, _)
RunLoop(st, rest, size, ov) ==
    IF rest = <<>> THEN st
    ELSE RunLoop(LoopBody(st, Head(rest), size, ov), Tail(rest), size, ov)

EmptyLocals == [chunks |-> <<>>, current_chunk |-> <<>>, current_length |-> 0]

\* split_text_into_chunks as a function of its arguments.
SplitTextIntoChunks(t, size, ov) ==
    IF Strip(t) = <<>> THEN <<>>
    ELSE Remainder(RunLoop(EmptyLocals, SplitSentences(t), size, ov))

\* No session is modelled: the variables of the store and of the session
\* keep the values init_session_state gives them.
AppIdle ==
    /\ collection = <<>>
    /\ messages = <<>>
    /\ documents_loaded = FALSE
    /\ document_summary = <<>>
    /\ manual_api_key = <<>>
    /\ manual_key = <<>>
    /\ env_api_key = <<>>
    /\ sidebar = <<>>
    /\ last_call = <<>>
    /\ loaded = {}
    /\ prev_loaded = {}

\* No call of split_text_into_chunks is modelled.
SegIdle ==
    /\ text = <<>>
    /\ chunk_size = CHUNK_SIZE
    /\ overlap = CHUNK_OVERLAP
    /\ sentences = <<>>
    /\ idx = 1
    /\ chunks = <<>>
    /\ current_chunk = <<>>
    /\ current_length = 0
    /\ pc = "idle"

(***************************************************************************)
(* The call of split_text_into_chunks, one step per loop iteration.        *)
(***************************************************************************)
Locals == [chunks |-> chunks, current_chunk |-> current_chunk,
           current_length |-> current_length]

\* Lines 149-159: the early return, or the sentences and the empty locals.
Begin ==
    /\ pc = "call"
    /\ IF Strip(text) = <<>>
       THEN /\ pc' = "done"
            /\ sentences' = <<>>
       ELSE /\ pc' = "loop"
            /\ sentences' = SplitSentences(text)
    /\ idx' = 1
    /\ chunks' = <<>>
    /\ current_chunk' = <<>>
    /\ current_length' = 0
    /\ UNCHANGED <<text, chunk_size, overlap>>
    /\ UNCHANGED appVars

\* Lines 161-174: one iteration.
Iterate ==
    /\ pc = "loop"
    /\ idx <= Len(sentences)
    /\ LET st == LoopBody(Locals, sentences[idx], chunk_size, overlap)
       IN  /\ chunks' = st.chunks
           /\ current_chunk' = st.current_chunk
           /\ current_length' = st.current_length
    /\ idx' = idx + 1
    /\ UNCHANGED <<text, chunk_size, overlap, sentences, pc>>
    /\ UNCHANGED appVars

\* Lines 177-180: the loop is over.
Finish ==
    /\ pc = "loop"
    /\ idx > Len(sentences)
    /\ chunks' = Remainder(Locals)
    /\ pc' = "done"
    /\ UNCHANGED <<text, chunk_size, overlap, sentences, idx,
                   current_chunk, current_length>>
    /\ UNCHANGED appVars

SegNext == Begin \/ Iterate \/ Finish

(***************************************************************************)
(* The inputs.                                                             *)
(***************************************************************************)
Alphabet == {"a", ".", "U+3002", " ", "\n"}

\* The scenario text "A. B. C." and its variants.
ScenarioAscii == <<"A", ".", " ", "B", ".", " ", "C", ".">>
ScenarioKuten == <<"A", "U+3002", "B", "U+3002", "C", "U+3002">>
ScenarioLines == <<"A", ".", "\n", "B", ".", "\n", "C", ".">>

SmallTexts == SeqsUpTo(Alphabet, MaxLen)
               \cup {ScenarioAscii, ScenarioKuten, ScenarioLines}

SegInitWith(texts, sizes, overlaps) ==
    /\ text \in texts
    /\ chunk_size \in sizes
    /\ overlap \in overlaps
    /\ sentences = <<>>
    /\ idx = 1
    /\ chunks = <<>>
    /\ current_chunk = <<>>
    /\ current_length = 0
    /\ pc = "call"
    /\ AppIdle

SegInit == SegInitWith(SmallTexts, 0..MaxSize, 0..MaxOverlap)

\* Calls with small texts and small parameters.
SegSpec == SegInit /\ [][SegNext]_vars

\* A sentence unit of n characters in all.
Unit(n) == Rep("a", n - 1) \o <<KUTEN>>

UnitLengths == {10, 100, 480, 501}
RECURSIVE UnitTexts(_)
UnitTexts(n) ==
    IF n = 0 THEN {<<>>}
    ELSE LET shorter == UnitTexts(n - 1)
         IN  shorter \cup {t \o Unit(k) : t \in shorter, k \in UnitLengths}

DefaultTexts == UnitTexts(MaxUnits) \cup {<<" ", "\n">>}

DefaultInit == SegInitWith(DefaultTexts, {CHUNK_SIZE}, {CHUNK_OVERLAP})

\* Calls with the default parameters, as load_pdf and load_web make them.
DefaultSpec == DefaultInit /\ [][SegNext]_vars

(***************************************************************************)
(* The vector store: create_collection, query_collection,                  *)
(* delete_collection and get_collection_info of the module vectorizer,     *)
(* which app.py and rag_engine.py import.  A fragment is a chunk's text    *)
(* and source; its identifier is its position and its embedding is that of *)
(* its text.                                                               *)
(***************************************************************************)
CharsOf(t) == {t[i] : i \in 1..Len(t)}

\* The similarity of the embeddings of two texts, in percent: 100 for equal
\* sets of characters, 0 for disjoint ones.
Similarity(q, t) ==
    LET both == CharsOf(q) \cap CharsOf(t)
        any == CharsOf(q) \cup CharsOf(t)
    IN  IF any = {} THEN 0 ELSE (100 * Cardinality(both)) \div Cardinality(any)

\* create_collection(chunks): the embeddings are computed first; when that
\* fails the call raises and the collection is as before, otherwise the
\* collection is deleted and holds exactly the fragments of chunks.
CreateCollection(coll, batch, embed_ok) ==
    IF embed_ok
    THEN [raised |-> FALSE,
          collection |-> [i \in 1..Len(batch) |->
                             [text |-> batch[i].text, source |-> batch[i].source]]]
    ELSE [raised |-> TRUE, collection |-> coll]

\* delete_collection(): no collection is left.
DeleteCollection(coll) == <<>>

\* get_collection_info()
GetCollectionInfo(coll) == [count |-> Len(coll)]

\* query_collection(query, n_results): the n_results fragments most similar
\* to the query, by descending score, equal scores by insertion order; the
\* empty list when there is no collection.
QueryCollection(coll, query, n_results) ==
    LET score(i) == Similarity(query, coll[i].text)
        before(i) == {j \in 1..Len(coll) :
                         score(j) > score(i) \/ (score(j) = score(i) /\ j < i)}
        at(k) == CHOOSE i \in 1..Len(coll) : Cardinality(before(i)) = k - 1
        n == IF n_results < Len(coll) THEN n_results ELSE Len(coll)
    IN  [k \in 1..n |-> [text |-> coll[at(k)].text,
                         source |-> coll[at(k)].source,
                         score |-> score(at(k))]]

(***************************************************************************)
(* rag_engine.generate_answer.                                             *)
(***************************************************************************)
Digit(d) == <<"0", "1", "2", "3", "4", "5", "6", "7", "8", "9">>[d + 1]

\* str(n) for 0 <= n < 100
Numeral(n) ==
    IF n < 10 THEN <<Digit(n)>> ELSE <<Digit(n \div 10), Digit(n % 10)>>

\* The else branch of line 54: the sentence that says that no relevant
\* material was found.
NoMaterialText ==
    <<"U+95A2U+9023U+3059U+308BU+8CC7U+6599U+304CU+898BU+3064U+304BU+308AU+307EU+305BU+3093U+3067U+3057U+305FU+3002U+4E00U+822CU+7684U+306AU+77E5U+8B58U+306BU+57FAU+3065U+3044U+3066U+56DEU+7B54U+3059U+308BU+304BU+3001U+8CC7U+6599U+304CU+4E0DU+8DB3U+3057U+3066U+3044U+308BU+65E8U+3092U+4F1DU+3048U+3066U+304FU+3060U+3055U+3044U+3002">>

\* f"--- <shiryou> {i+1} ---\n{chunk['text']}" for the i-th result, i from 1
ContextPart(i, chunk) ==
    <<"--- U+8CC7U+6599 ">> \o Numeral(i) \o <<" ---", "\n">> \o chunk.text

RECURSIVE JoinWith(_, _)
\* sep.join(parts)
JoinWith(sep, parts) ==
    IF parts = <<>> THEN <<>>
    ELSE IF Len(parts) = 1 THEN parts[1]
    ELSE parts[1] \o sep \o JoinWith(sep, Tail(parts))

\* A variant of SourceEntry: the score is read under a key the results do
\* not have, so the default 0.0 is taken.
SourceEntryNoScore(chunk) ==
    [source |-> chunk.source, text |-> chunk.text, score |-> 0]

\* Lines 43-52: the entry of sources for one result.
SourceEntry(chunk) ==
    [source |-> chunk.source, text |-> chunk.text, score |-> chunk.score]

\* A variant of BuildContext: without the else branch of line 53.
BuildContextNoSentinel(relevant_chunks) ==
    [context_text |->
         JoinWith(<<"\n", "\n">>,
                  [i \in 1..Len(relevant_chunks) |->
                      ContextPart(i, relevant_chunks[i])]),
     sources |-> [i \in 1..Len(relevant_chunks) |->
                     SourceEntry(relevant_chunks[i])]]

\* Lines 39-54: context_text and sources from the results of the query.
BuildContext(relevant_chunks) ==
    IF relevant_chunks # <<>>
    THEN [context_text |->
              JoinWith(<<"\n", "\n">>,
                       [i \in 1..Len(relevant_chunks) |->
                           ContextPart(i, relevant_chunks[i])]),
          sources |-> [i \in 1..Len(relevant_chunks) |->
                          SourceEntry(relevant_chunks[i])]]
    ELSE [context_text |-> NoMaterialText, sources |-> <<>>]

\* Lines 76-90: the answer of the model, or the message of its error; the
\* sources are returned in both cases.
ModelAnswer(gen_ok) ==
    IF gen_ok THEN <<"response.text">>
    ELSE <<"error: ", "str(e)">>

\* generate_answer(query, api_key, model_name, top_k): its locals and its
\* result.  An error of query_collection is not caught: the call raises.
GenerateAnswer(coll, query, top_k, query_ok, gen_ok) ==
    IF ~query_ok
    THEN [raised |-> TRUE, query |-> query, relevant_chunks |-> <<>>,
          context_text |-> <<>>, answer |-> <<>>, sources |-> <<>>]
    ELSE LET relevant_chunks == QueryCollection(coll, query, top_k)
             built == BuildContext(relevant_chunks)
         IN  [raised |-> FALSE,
              query |-> query,
              relevant_chunks |-> relevant_chunks,
              context_text |-> built.context_text,
              answer |-> ModelAnswer(gen_ok),
              sources |-> built.sources]

(***************************************************************************)
(* Calls of generate_answer on a store of any contents.                    *)
(***************************************************************************)
PdfSource(name, page) == <<name, " - U+30DAU+30FCU+30B8 ">> \o Numeral(page)

FragmentPool ==
    { [text |-> <<"a", "U+3002">>, source |-> PdfSource("a.pdf", 1)],
      [text |-> <<"b", "U+3002">>, source |-> PdfSource("a.pdf", 2)],
      [text |-> <<"a", "b", "U+3002">>, source |-> <<"http://ok">>] }

Queries == {<<"a">>, <<"b">>, <<"z">>}
Prompts == {<<"a">>, <<"z">>}

\* The lists of distinct elements of S, at most n long.
ListsOf(S, n) ==
    {l \in SeqsUpTo(S, n) : \A i, j \in 1..Len(l) : i # j => l[i] # l[j]}

RagInit ==
    /\ SegIdle
    /\ collection \in ListsOf(FragmentPool, MaxFragments)
    /\ messages = <<>>
    /\ documents_loaded = FALSE
    /\ document_summary = <<>>
    /\ manual_api_key = <<>>
    /\ manual_key = <<>>
    /\ env_api_key = <<>>
    /\ sidebar = <<>>
    /\ last_call = <<>>
    /\ loaded = {}
    /\ prev_loaded = {}

\* One call of generate_answer.
Ask ==
    /\ \E query \in Queries, top_k \in {1, DEFAULT_TOP_K}, query_ok, gen_ok \in BOOLEAN :
          last_call' = <<GenerateAnswer(collection, query, top_k, query_ok, gen_ok)>>
    /\ UNCHANGED <<segVars, storeVars, sessionVars, loaded, prev_loaded>>

RagSpec == RagInit /\ [][Ask]_vars

(***************************************************************************)
(* data_loader: load_pdf, load_web, get_document_summary.  A PDF file is   *)
(* its name, whether PyMuPDF can open it, and the texts of its pages; a    *)
(* web page is whether the request succeeds and its text as clean_text     *)
(* returns it (line 111).                                                  *)
(***************************************************************************)
RECURSIVE Flatten(_)
Flatten(lists) ==
    IF lists = <<>> THEN <<>> ELSE Head(lists) \o Flatten(Tail(lists))

\* Lines 40-55: the chunks of one page; a blank page is skipped.
PageChunks(file, page_num) ==
    LET page_text == file.pages[page_num]
        page_chunks == SplitTextIntoChunks(page_text, CHUNK_SIZE, CHUNK_OVERLAP)
    IN  IF Strip(page_text) = <<>> THEN <<>>
        ELSE [k \in 1..Len(page_chunks) |->
                 [text |-> page_chunks[k],
                  source |-> PdfSource(file.name, page_num),
                  page |-> <<Numeral(page_num)>>]]

\* load_pdf(file_bytes, filename): raises ValueError, or returns the chunks.
LoadPdf(file) ==
    IF ~file.readable THEN [raised |-> TRUE, chunks |-> <<>>]
    ELSE [raised |-> FALSE,
          chunks |-> Flatten([n \in 1..Len(file.pages) |-> PageChunks(file, n)])]

WebPages ==
    [url \in {"http://ok", "http://down"} |->
        IF url = "http://ok"
        THEN [reachable |-> TRUE, text |-> <<"a", "b", "U+3002">>]
        ELSE [reachable |-> FALSE, text |-> <<>>]]

\* load_web(url): raises ValueError, or returns the chunks.
LoadWeb(url) ==
    IF ~WebPages[url].reachable THEN [raised |-> TRUE, chunks |-> <<>>]
    ELSE LET text_chunks ==
                 SplitTextIntoChunks(WebPages[url].text, CHUNK_SIZE, CHUNK_OVERLAP)
         IN  [raised |-> FALSE,
              chunks |-> [k \in 1..Len(text_chunks) |->
                             [text |-> text_chunks[k],
                              source |-> <<url>>,
                              page |-> <<>>]]]

RECURSIVE SumLen(_)
SumLen(batch) ==
    IF batch = <<>> THEN 0 ELSE Len(Head(batch).text) + SumLen(Tail(batch))

\* get_document_summary(chunks)
GetDocumentSummary(batch) ==
    [total_chunks |-> Len(batch),
     total_chars |-> SumLen(batch),
     sources |-> {batch[i].source : i \in 1..Len(batch)}]

RangeOf(l) == {l[i] : i \in 1..Len(l)}
AsFragment(c) == [text |-> c.text, source |-> c.source]

\* The fragments that the files and the URL of a load hold.
InputFragments(files, url) ==
    LET fromPdfs == UNION {RangeOf(LoadPdf(f).chunks) : f \in RangeOf(files)}
        fromWeb == IF url = "" THEN {} ELSE RangeOf(LoadWeb(url).chunks)
    IN  {AsFragment(c) : c \in fromPdfs \cup fromWeb}

(***************************************************************************)
(* config: the API key.                                                    *)
(***************************************************************************)
\* A variant of IsApiKeyValid: the length is taken without strip().
IsApiKeyValidUnstripped(api_key) ==
    IF api_key = <<>> THEN FALSE ELSE Len(api_key[1]) >= 30

\* is_api_key_valid(api_key), api_key an optional key
IsApiKeyValid(api_key) ==
    IF api_key = <<>> THEN FALSE ELSE Len(Strip(api_key[1])) >= 30

\* get_api_key_status()[0]
ApiKeyStatusValid == env_api_key # <<>> /\ IsApiKeyValid(env_api_key)

\* Lines 120-148 of render_sidebar: the key the run works with.
ActiveApiKey ==
    IF ApiKeyStatusValid THEN env_api_key ELSE <<manual_key>>

(***************************************************************************)
(* app.py: one action per run of the script, that is per user interaction. *)
(***************************************************************************)
Notice(kind, about) == [kind |-> kind, about |-> about]

RECURSIVE GatherPdfs(_, _)
\* Lines 229-236: the PDF files, one after the other; a file that cannot be
\* read adds nothing.
GatherPdfs(all_chunks, files) ==
    IF files = <<>> THEN all_chunks
    ELSE LET r == LoadPdf(Head(files))
         IN  GatherPdfs(IF r.raised THEN all_chunks ELSE all_chunks \o r.chunks,
                        Tail(files))

\* A variant of GatherChunks: all_chunks is not emptied at line 226 and still
\* holds the chunks of the load before.
GatherChunksKeepingOld(uploaded_files, url_input) ==
    LET old == [i \in 1..Len(collection) |->
                   [text |-> collection[i].text, source |-> collection[i].source,
                    page |-> <<>>]]
        pdfs == GatherPdfs(old, uploaded_files)
    IN  IF url_input = "" THEN pdfs
        ELSE LET r == LoadWeb(url_input)
             IN  IF r.raised THEN pdfs ELSE pdfs \o r.chunks

\* Lines 226-245: all_chunks, from the files and then from the URL.
GatherChunks(uploaded_files, url_input) ==
    LET pdfs == GatherPdfs(<<>>, uploaded_files)
    IN  IF url_input = "" THEN pdfs
        ELSE LET r == LoadWeb(url_input)
             IN  IF r.raised THEN pdfs ELSE pdfs \o r.chunks

\* A variant of LoadDocumentsOutcome: delete_collection() is called before
\* create_collection(all_chunks).
LoadDocumentsOutcomeDeleteFirst(uploaded_files, url_input, embed_ok) ==
    LET all_chunks == GatherChunks(uploaded_files, url_input)
        r == CreateCollection(DeleteCollection(collection), all_chunks, embed_ok)
    IN  IF all_chunks = <<>>
        THEN [collection |-> collection,
              documents_loaded |-> documents_loaded,
              document_summary |-> document_summary,
              sidebar |-> <<>>,
              stored |-> FALSE]
        ELSE IF ~r.raised
        THEN [collection |-> r.collection,
              documents_loaded |-> TRUE,
              document_summary |-> <<GetDocumentSummary(all_chunks)>>,
              sidebar |-> <<Notice("success", Numeral(Len(all_chunks)))>>,
              stored |-> TRUE]
        ELSE [collection |-> r.collection,
              documents_loaded |-> documents_loaded,
              document_summary |-> document_summary,
              sidebar |-> <<Notice("error", <<"vectorize">>)>>,
              stored |-> FALSE]

\* A variant of LoadDocumentsOutcome: documents_loaded is set before the try
\* block of create_collection(all_chunks), so a failed call leaves it set.
LoadDocumentsOutcomeFlagFirst(uploaded_files, url_input, embed_ok) ==
    LET all_chunks == GatherChunks(uploaded_files, url_input)
        r == CreateCollection(collection, all_chunks, embed_ok)
    IN  IF all_chunks = <<>>
        THEN [collection |-> collection,
              documents_loaded |-> documents_loaded,
              document_summary |-> document_summary,
              sidebar |-> <<>>,
              stored |-> FALSE]
        ELSE IF ~r.raised
        THEN [collection |-> r.collection,
              documents_loaded |-> TRUE,
              document_summary |-> <<GetDocumentSummary(all_chunks)>>,
              sidebar |-> <<Notice("success", Numeral(Len(all_chunks)))>>,
              stored |-> TRUE]
        ELSE [collection |-> r.collection,
              documents_loaded |-> TRUE,
              document_summary |-> document_summary,
              sidebar |-> <<Notice("error", <<"vectorize">>)>>,
              stored |-> FALSE]

\* load_documents(uploaded_files, url_input): the store, the session state
\* and the notice of lines 253 and 255 after the call; stored says that
\* create_collection returned.
LoadDocumentsOutcome(uploaded_files, url_input, embed_ok) ==
    LET all_chunks == GatherChunks(uploaded_files, url_input)
        r == CreateCollection(collection, all_chunks, embed_ok)
    IN  IF all_chunks = <<>>
        THEN [collection |-> collection,
              documents_loaded |-> documents_loaded,
              document_summary |-> document_summary,
              sidebar |-> <<>>,
              stored |-> FALSE]
        ELSE IF ~r.raised
        THEN [collection |-> r.collection,
              documents_loaded |-> TRUE,
              document_summary |-> <<GetDocumentSummary(all_chunks)>>,
              sidebar |-> <<Notice("success", Numeral(Len(all_chunks)))>>,
              stored |-> TRUE]
        ELSE [collection |-> r.collection,
              documents_loaded |-> documents_loaded,
              document_summary |-> document_summary,
              sidebar |-> <<Notice("error", <<"vectorize">>)>>,
              stored |-> FALSE]

PdfFiles ==
    { [name |-> "a.pdf", readable |-> TRUE,
       pages |-> << <<"a", "U+3002">>, <<" ", "\n">>, <<"b", "U+3002">> >>],
      [name |-> "c.pdf", readable |-> FALSE, pages |-> <<>>] }

Urls == {"", "http://ok", "http://down"}

ValidKey == Rep("k", 30)
PaddedKey == <<" ">> \o Rep("k", 29)
ManualKeys == {<<>>, PaddedKey, ValidKey}

\* Lines 180-184 of render_sidebar and load_documents: the load button.
LoadDocuments ==
    \E uploaded_files \in ListsOf(PdfFiles, MaxFiles), url_input \in Urls,
       embed_ok \in BOOLEAN :
        IF uploaded_files = <<>> /\ url_input = ""
        THEN /\ sidebar' = <<Notice("error", <<"no input">>)>>
             /\ UNCHANGED <<segVars, storeVars, messages, documents_loaded,
                            document_summary, manual_api_key, manual_key,
                            env_api_key, last_call, loaded, prev_loaded>>
        ELSE LET out == LoadDocumentsOutcome(uploaded_files, url_input, embed_ok)
             IN  /\ collection' = out.collection
                 /\ documents_loaded' = out.documents_loaded
                 /\ document_summary' = out.document_summary
                 /\ sidebar' = out.sidebar
                 /\ loaded' = IF out.stored
                              THEN InputFragments(uploaded_files, url_input)
                              ELSE loaded
                 /\ prev_loaded' = IF out.stored THEN loaded ELSE prev_loaded
                 /\ UNCHANGED <<segVars, messages, manual_api_key, manual_key,
                                env_api_key, last_call>>

\* clear_documents(): the clear button.
ClearDocuments ==
    /\ collection' = DeleteCollection(collection)
    /\ documents_loaded' = FALSE
    /\ document_summary' = <<>>
    /\ messages' = <<>>
    /\ sidebar' = <<>>
    /\ UNCHANGED <<segVars, manual_api_key, manual_key, env_api_key, last_call,
                   loaded, prev_loaded>>

\* Lines 129-138 of render_sidebar: the API key text input, shown when the
\* configured key is not valid.
EnterApiKey ==
    /\ ~ApiKeyStatusValid
    /\ \E key \in ManualKeys :
          /\ manual_key' = key
          /\ manual_api_key' = IF key # <<>> THEN key ELSE manual_api_key
    /\ sidebar' = <<>>
    /\ UNCHANGED <<segVars, storeVars, messages, documents_loaded,
                   document_summary, env_api_key, last_call, loaded,
                   prev_loaded>>

\* Lines 304-338 of render_main: a question in the chat input.
SubmitQuestion ==
    /\ IsApiKeyValid(ActiveApiKey)
    /\ documents_loaded
    /\ Len(messages) + 2 <= MaxMessages
    /\ \E prompt \in Prompts, query_ok, gen_ok \in BOOLEAN :
          LET result == GenerateAnswer(collection, prompt, DEFAULT_TOP_K,
                                       query_ok, gen_ok)
              asked == Append(messages, [role |-> "user", content |-> prompt])
          IN  /\ messages' = IF result.raised THEN asked
                             ELSE Append(asked, [role |-> "assistant",
                                                 content |-> result.answer,
                                                 sources |-> result.sources])
    /\ sidebar' = <<>>
    /\ UNCHANGED <<segVars, storeVars, documents_loaded, document_summary,
                   manual_api_key, manual_key, env_api_key, last_call,
                   loaded, prev_loaded>>

\* init_session_state(), an empty store and the configured key.
AppInit ==
    /\ SegIdle
    /\ collection = <<>>
    /\ messages = <<>>
    /\ documents_loaded = FALSE
    /\ document_summary = <<>>
    /\ manual_api_key = <<>>
    /\ manual_key = <<>>
    /\ env_api_key \in {<<>>, <<ValidKey>>}
    /\ sidebar = <<>>
    /\ last_call = <<>>
    /\ loaded = {}
    /\ prev_loaded = {}

AppNext == LoadDocuments \/ ClearDocuments \/ EnterApiKey \/ SubmitQuestion

AppSpec == AppInit /\ [][AppNext]_vars

(***************************************************************************)
(* Claims about split_text_into_chunks.                                    *)
(***************************************************************************)
Last(s) == s[Len(s)]
Tail_(s, n) == SubSeq(s, Len(s) - n + 1, Len(s))     \* the last n of s, n <= Len(s)
IsSuffix(s, c) == Len(s) <= Len(c) /\ Tail_(c, Len(s)) = s
AllBlank(t) == \A i \in 1..Len(t) : t[i] \in {" ", "\n", "\t"}

\* C1: with chunk_size = 500 and overlap = 50 every returned chunk is at most
\* chunk_size long, unless it was made from a single sentence unit that is
\* itself longer than chunk_size (the chunk ends with that unit).
C1_ChunksWithinSize ==
    (pc = "done" /\ chunk_size = 500 /\ overlap = 50) =>
        \A i \in 1..Len(chunks) :
            \/ Len(chunks[i]) <= chunk_size
            \/ \E k \in 1..Len(sentences) :
                  /\ Len(sentences[k]) > chunk_size
                  /\ IsSuffix(sentences[k], chunks[i])

\* C2: for consecutive returned chunks c[i], c[i+1], with overlap > 0 and
\* len(c[i]) >= overlap, c[i+1] starts with the last overlap characters of c[i].
C2_OverlapPrefix ==
    pc = "done" =>
        \A i \in 1..(Len(chunks) - 1) :
            (overlap > 0 /\ Len(chunks[i]) >= overlap) =>
                /\ Len(chunks[i + 1]) >= overlap
                /\ SubSeq(chunks[i + 1], 1, overlap) = Tail_(chunks[i], overlap)

\* C2's case: two chunks, the first at least overlap long, and its last
\* overlap characters are not its first ones.
C2_Witness ==
    /\ pc = "done"
    /\ overlap > 0
    /\ Len(chunks) >= 2
    /\ Len(chunks[1]) > overlap
    /\ Tail_(chunks[1], overlap) # SubSeq(chunks[1], 1, overlap)

\* An iteration that closed a chunk: the closed chunk is the last of chunks'
\* and the sentence of the iteration is sentences[idx].
ClosedNow == pc = "loop" /\ pc' = "loop" /\ Len(chunks') = Len(chunks) + 1

\* C3 as stated: when a chunk is closed and overlap = 0 or the closed chunk is
\* shorter than overlap, the next chunk starts empty: it holds the next
\* sentence unit and nothing of the closed chunk.
C3_Original ==
    [][(ClosedNow /\ (overlap = 0 \/ Len(Last(chunks')) < overlap))
          => current_chunk' = <<sentences[idx]>>]_vars

\* C3 as amended: when a chunk is closed and overlap = 0, the next chunk
\* starts empty; when overlap > 0 and the closed chunk is shorter than overlap,
\* the next chunk starts with the whole closed chunk, followed by the next
\* sentence unit.
C3_Amended ==
    [][ClosedNow =>
          /\ overlap = 0 => current_chunk' = <<sentences[idx]>>
          /\ (overlap > 0 /\ Len(Last(chunks')) < overlap)
                => current_chunk' = <<Last(chunks'), sentences[idx]>>]_vars

\* C3's case: the chunk just closed is shorter than overlap and the running
\* chunk holds it and one sentence.
C3_Witness ==
    /\ pc = "loop"
    /\ idx > 1
    /\ chunks # <<>>
    /\ overlap > 0
    /\ Len(Last(chunks)) < overlap
    /\ current_chunk = <<Last(chunks), sentences[idx - 1]>>

\* The sentence added by the last iteration is longer than chunk_size.
LongJustAdded ==
    pc = "loop" /\ idx > 1 /\ Len(sentences[idx - 1]) > chunk_size

\* C4 as stated: a sentence unit longer than chunk_size is placed alone in
\* its own chunk, for every overlap: the running chunk holds nothing but the
\* sentence and is closed as that chunk by the next step.
C4_Original ==
    [][LongJustAdded =>
          /\ current_chunk = <<sentences[idx - 1]>>
          /\ chunks' = Append(chunks, sentences[idx - 1])]_vars

\* C4 as amended: a sentence unit longer than chunk_size is never split and
\* is the only sentence unit of its chunk, which the next step closes; the
\* chunk holds nothing but the sentence when overlap = 0 or no chunk precedes
\* it, and otherwise the last overlap characters of the preceding chunk (the
\* whole of it when it is shorter) followed by the sentence.
C4_Amended ==
    [][LongJustAdded =>
          /\ current_chunk =
                IF overlap > 0 /\ chunks # <<>>
                THEN <<Tail_(Last(chunks),
                             IF overlap < Len(Last(chunks))
                             THEN overlap ELSE Len(Last(chunks))),
                       sentences[idx - 1]>>
                ELSE <<sentences[idx - 1]>>
          /\ chunks' = Append(chunks, Join(current_chunk))]_vars

\* C4's case: a long sentence that follows a closed chunk, with overlap > 0.
C4_Witness ==
    /\ LongJustAdded
    /\ overlap > 0
    /\ chunks # <<>>
    /\ Len(current_chunk) = 2
    /\ idx <= Len(sentences)

\* C5 as stated: "A. B. C." with chunk_size = 3 and overlap = 0 gives exactly
\* the chunks "A.", "B.", "C.".
C5_Original ==
    (pc = "done" /\ text = ScenarioAscii /\ chunk_size = 3 /\ overlap = 0) =>
        chunks = << <<"A", ".">>, <<"B", ".">>, <<"C", ".">> >>

\* C5 as amended: "A. B. C." with chunk_size = 3 and overlap = 0 gives the one
\* chunk "A. B. C." (an ASCII full stop is no sentence boundary); the same
\* sentences ended by ideographic full stops, or separated by line breaks,
\* give three chunks, one per sentence.
C5_Amended ==
    (pc = "done" /\ chunk_size = 3 /\ overlap = 0) =>
        /\ text = ScenarioAscii => chunks = <<ScenarioAscii>>
        /\ text = ScenarioKuten =>
              chunks = << <<"A", "U+3002">>, <<"B", "U+3002">>, <<"C", "U+3002">> >>
        /\ text = ScenarioLines =>
              chunks = << <<"A", ".">>, <<"B", ".">>, <<"C", ".">> >>

\* C5's case: the call on "A. B. C." has returned.
C5_Witness ==
    pc = "done" /\ text = ScenarioAscii /\ chunk_size = 3 /\ overlap = 0

\* C6: for the empty text and every text of whitespace only the call returns
\* the empty list at once, whatever chunk_size and overlap are.
C6_BlankGivesEmpty ==
    (AllBlank(text) /\ pc # "call") => (pc = "done" /\ chunks = <<>>)

\* C6's case: a call on a non-empty text of whitespace has returned.
C6_Witness ==
    /\ pc = "done"
    /\ Len(text) >= 2
    /\ AllBlank(text)
    /\ \E i \in 1..Len(text) : text[i] = "\n"
    /\ chunk_size > 0
    /\ overlap > 0

\* C11: with overlap = 0, for every text and every chunk_size, the returned
\* chunks joined in order are the stripped, non-empty sentence units of the
\* text joined in their order (nothing is dropped, nothing is repeated), every
\* returned chunk is non-empty, and there are at most as many chunks as
\* sentence units.
C11_NoDropNoDuplicate ==
    (pc = "done" /\ overlap = 0) =>
        /\ Join(chunks) = Join(SplitSentences(text))
        /\ \A i \in 1..Len(chunks) : chunks[i] # <<>>
        /\ Len(chunks) <= Len(SplitSentences(text))

\* C11's case: a call with overlap = 0 on a text with whitespace to strip
\* returned several chunks, fewer than there are sentence units.
C11_Witness ==
    /\ pc = "done"
    /\ overlap = 0
    /\ Len(chunks) >= 2
    /\ Len(chunks) < Len(SplitSentences(text))
    /\ Len(Join(chunks)) < Len(text)
    /\ \E i \in 1..Len(text) : text[i] = " "

(***************************************************************************)
(* Claims about the store and the session.                                 *)
(***************************************************************************)
\* The step appended an answer of generate_answer to the chat.
Answered ==
    /\ Len(messages') > Len(messages)
    /\ messages'[Len(messages')].role = "assistant"

\* C7: after create_collection was called with one set of chunks and then with
\* another, a query returns fragments of the second set only, never one that
\* was in the first set alone; the collection holds the second set, not a merge.
C7_OnlyLastBatch ==
    [][/\ Answered =>
            \A e \in RangeOf(messages'[Len(messages')].sources) :
                /\ AsFragment(e) \in loaded
                /\ AsFragment(e) \notin (prev_loaded \ loaded)
       /\ documents_loaded' =>
            RangeOf(collection') = loaded']_vars

\* C7's case: two loads with different chunks were stored, the first held a
\* fragment the second does not, and an answer given after the second load
\* cites a fragment of the second load alone.
C7_Witness ==
    /\ prev_loaded \ loaded # {}
    /\ messages # <<>>
    /\ messages[Len(messages)].role = "assistant"
    /\ \E e \in RangeOf(messages[Len(messages)].sources) :
          AsFragment(e) \in loaded \ prev_loaded

VectorizeError == <<Notice("error", <<"vectorize">>)>>

\* C8: when the embedding fails, create_collection fails, the error reaches the
\* caller (load_documents shows it) and the stored collection, its fragments
\* and its count, is as before; a loaded session never sees an emptied or
\* half-replaced collection.
C8_AllOrNothing ==
    [][/\ sidebar' = VectorizeError =>
            /\ collection' = collection
            /\ GetCollectionInfo(collection').count = GetCollectionInfo(collection).count
            /\ documents_loaded' = documents_loaded
       /\ documents_loaded' =>
            /\ collection' # <<>>
            /\ RangeOf(collection') = loaded']_vars

\* C8's case: a load failed in the embedding while a collection was stored.
C8_Witness ==
    /\ sidebar = VectorizeError
    /\ documents_loaded
    /\ Len(collection) >= 2

\* A step of the load button that stored the chunks: create_collection
\* returned and line 253 was reached.
LoadSucceeded ==
    LoadDocuments /\ sidebar' # <<>> /\ sidebar'[1].kind = "success"

\* A step of the load button that stored nothing: there was no input, no
\* chunks were read, or create_collection raised.
LoadFailed ==
    ~(sidebar' # <<>> /\ sidebar'[1].kind = "success") /\ LoadDocuments

\* C12: in every state that loads, clears and questions can reach,
\* documents_loaded is true exactly when document_summary is set; a load that
\* yields no chunks or whose create_collection fails leaves documents_loaded,
\* document_summary and messages as they were; clear_documents sets
\* documents_loaded to false, document_summary to None and messages to [].
\* (The second part is written by its contrapositive: a step that changes one
\* of the three is not such a load.)
C12_LoadedIffSummary ==
    /\ [](documents_loaded <=> document_summary # <<>>)
    /\ [][/\ ~UNCHANGED <<documents_loaded, document_summary, messages>> =>
                ~LoadFailed
          /\ ClearDocuments =>
                /\ documents_loaded' = FALSE
                /\ document_summary' = <<>>
                /\ messages' = <<>>]_vars

\* C12's case: in a session with loaded documents and a chat history,
\* create_collection failed in a later load.
C12_Witness ==
    /\ sidebar = VectorizeError
    /\ documents_loaded
    /\ document_summary # <<>>
    /\ messages # <<>>

\* The step appended to the chat: a question was taken (line 315) and
\* generate_answer was called with it.
Asked == Len(messages') > Len(messages)

\* The key the run works with is not None and, stripped, has 30 characters
\* or more.
KeyPasses == ActiveApiKey # <<>> /\ Len(Strip(ActiveApiKey[1])) >= 30

\* C13: generate_answer is called and messages grow only in a state where the
\* active API key is valid (not None, 30 or more characters after stripping)
\* and documents_loaded is true; clear_documents leaves documents_loaded false
\* and only a load that stored its chunks makes it true again, so that after
\* a clear no question is answered before a later load succeeds.
C13_AnswerOnlyWhenReady ==
    [][/\ Asked => (KeyPasses /\ documents_loaded)
       /\ ClearDocuments => ~documents_loaded'
       /\ (~documents_loaded /\ documents_loaded') => LoadSucceeded]_vars

\* C13's case: a question was answered in a session whose key was typed into
\* the sidebar, after a load that followed an earlier one.
C13_Witness ==
    /\ Len(messages) = 2
    /\ messages[2].role = "assistant"
    /\ env_api_key = <<>>
    /\ manual_key = ValidKey
    /\ documents_loaded
    /\ prev_loaded # {}

(***************************************************************************)
(* Claims about generate_answer.                                           *)
(***************************************************************************)
Returned == last_call # <<>> /\ ~last_call[1].raised

\* C9: when the query of the store returns no fragments, context_text is the
\* fixed sentence for "no relevant material found" and sources is empty.
C9_NoResultsSentinel ==
    (Returned /\ last_call[1].relevant_chunks = <<>>) =>
        /\ last_call[1].context_text = NoMaterialText
        /\ last_call[1].sources = <<>>

\* C9's case: generate_answer returned after a query without results.
C9_Witness ==
    /\ Returned
    /\ last_call[1].relevant_chunks = <<>>
    /\ collection = <<>>

RECURSIVE LabeledBlocks(_, _)
\* The first k results as labeled blocks, in order, two line breaks between.
LabeledBlocks(results, k) ==
    IF k = 0 THEN <<>>
    ELSE LabeledBlocks(results, k - 1)
         \o (IF k > 1 THEN <<"\n", "\n">> ELSE <<>>)
         \o <<"--- U+8CC7U+6599 ", Digit(k), " ---", "\n">>
         \o results[k].text

\* C10: when the query returns results, context_text is one labeled block per
\* result in the order of the results, and sources has exactly one entry per
\* result, in that order, with the result's text, source and score; also when
\* the call of the generative model fails.
C10_SourcesMirrorResults ==
    (Returned /\ last_call[1].relevant_chunks # <<>>) =>
        LET results == last_call[1].relevant_chunks
            sources == last_call[1].sources
        IN  /\ last_call[1].context_text = LabeledBlocks(results, Len(results))
            /\ Len(sources) = Len(results)
            /\ \A i \in 1..Len(results) :
                  /\ sources[i].text = results[i].text
                  /\ sources[i].source = results[i].source
                  /\ sources[i].score = results[i].score

\* C10's case: the query returned several results of different scores and
\* the call of the generative model failed.
C10_Witness ==
    /\ Returned
    /\ Len(last_call[1].relevant_chunks) >= 2
    /\ last_call[1].relevant_chunks[1].score > last_call[1].relevant_chunks[2].score
    /\ last_call[1].relevant_chunks[2].score > 0
    /\ last_call[1].answer = <<"error: ", "str(e)">>

====
